---- MODULE Spec2Model ----
(***************************************************************************)
(* A model of src/src/tunnel.c: the tunnel cache and active set, the       *)
(* lifecycle of a tunnel record (add, delete, activate manager, activate   *)
(* task, reconnect manager, reconnect task), the selector tunnel_get, the  *)
(* packet path tunnel_packets and the cache file.                          *)
(*                                                                         *)
(* Every critical section of the code (thread_lock .. thread_unlock) is    *)
(* one atomic action guarded by the lock being free, so every state of a   *)
(* behaviour is a state at a release of the global lock.  What a thread    *)
(* does outside the lock is a step of its own where another thread can see *)
(* it or change what it reads.                                             *)
(***************************************************************************)
EXTENDS Integers, Sequences, FiniteSets, TLC

\* ------------------------------------------------------------ constants

TUNNEL_STATE_CLOSED   == 0
TUNNEL_STATE_OPENING  == 1
TUNNEL_STATE_OPEN     == 2
TUNNEL_STATE_DEAD     == 3
TUNNEL_STATE_CLOSING  == 4
TUNNEL_STATE_DELETING == 5

TUNNEL_INIT_AGE == 16
MAX_INIT_OPEN   == 8
MAX_RETRIES     == 3

\* A weight is a fixed-point number: WEIGHT_ONE stands for 1.0.
WEIGHT_ONE == 100000

\* The null pointer, and the driver handle of an open session.
NULL   == 0
HANDLE == 1
\* An address that holds no record.
WILD   == -1

TUNNEL_HISTORY_SIZE == 1024
UINT8_MAX == 255

Digits == <<"0", "1", "2", "3", "4", "5", "6", "7", "8", "9">>

\* ------------------------------------------------------------ bounds

\* Records ever allocated by tunnel_create in one behaviour.
MaxRec == 3
\* How far below TUNNEL_INIT_AGE failed activations take an age (an age of 1
\* or 0 may always fail once more: it saturates at 0).
MaxAgeDrop == 1

\* A URL is a string of characters; these are the URLs of the administrator.
Urls == {<<"a">>, <<"b">>}
\* The ages the cache file gives the records read at startup.
InitAges == {1, TUNNEL_INIT_AGE}
\* The age the cache file gives each record of the cold start.
ColdAge == 1
\* Half the width of a packet hash, in bits (the code's is 32).
HashHalfBits == 2
\* The largest repeat count of a packet.
MaxRepeat == 2
\* The longest URL tunnel_file_read takes (the code's CKTP_MAX_URL_LENGTH).
MaxUrlLen == 3
\* The lines of the cache file the startup sequence finds.
MaxLines == 2
\* The tunnel_packets calls of one behaviour.
MaxPackets == 2

\* ------------------------------------------------------------ state

VARIABLES
    heap,            \* the records allocated so far: heap[p] is the struct at pointer p
    next_id,         \* tunnel_create's static id counter
    tunnels_cache,   \* tunnels_cache.tunnels[0 .. length-1], as pointers
    tunnels_active,  \* tunnels_active.tunnels[0 .. length-1], as pointers
    tunnels_lock,    \* "free", or the operation that returned holding it
    tasks,           \* the running tunnel_activate and tunnel_reconnect threads
    mgr_pc,          \* the startup sequence, then where tunnel_activate_manager is
    panicked,        \* panic() was called: the process is gone
    disk,            \* the cache file, its backup and its temporary file
    tunnel_history,  \* tunnel_get's static history table
    ret,             \* what the last tunnel_packets call did
    npackets,        \* the tunnel_packets calls so far
    writer           \* where the thread inside tunnel_file_write is

\* The (url, age) pairs of the records of the cache set.
CachePairs ==
    {[url |-> heap[tunnels_cache[i]].url, age |-> heap[tunnels_cache[i]].age] :
        i \in 1..Len(tunnels_cache)}

\* What the lifecycle operations leave alone.
io == <<disk, tunnel_history, ret, npackets, writer>>

vars == <<heap, next_id, tunnels_cache, tunnels_active, tunnels_lock, tasks,
          mgr_pc, panicked, disk, tunnel_history, ret, npackets, writer>>

\* ------------------------------------------------------------ records

\* A file that does not exist.
ABSENT == <<"absent">>
\* No cache file, no backup, no temporary file.
NoDisk == [pri |-> ABSENT, bak |-> ABSENT, tmp |-> ABSENT]
\* The history table before any packet: static storage, all zero.  Only the
\* slots a hash of the model can index are kept.
NoHistory ==
    [i \in {hash % TUNNEL_HISTORY_SIZE : hash \in 0..((4 ^ HashHalfBits) - 1)} |->
        [hash |-> 0, id |-> 0]]
\* Before any tunnel_packets call.
NoRet == [op |-> "none"]
\* No thread is inside tunnel_file_write.  windows is the build: whether
\* WINDOWS is defined.  pre, post and cache are not in the code: what the
\* cache files held when the last write began, what that write is to leave,
\* and the (url, age) pairs the cache set held then.
NoWriter == [pc |-> "idle", windows |-> FALSE, pre |-> <<>>, post |-> <<>>,
             cache |-> {}]

\* What a freed string or record reads as: bytes that match no URL.
GARBAGE == <<"?">>

\* tunnel_create: a fresh record, CLOSED, no handle, weight 1.0.
tunnel_create(url, age, id) ==
    [tunnel |-> NULL, state |-> TUNNEL_STATE_CLOSED, reconnect |-> FALSE,
     id |-> id % 65536, age |-> age, weight |-> WEIGHT_ONE, url |-> url,
     mem |-> "live"]

\* The cell of a record after free(): its driver was closed first.
FreedRecord ==
    [tunnel |-> NULL, state |-> TUNNEL_STATE_CLOSED, reconnect |-> FALSE,
     id |-> 0, age |-> 0, weight |-> 0, url |-> GARBAGE, mem |-> "freed"]

\* The pointer malloc returns: the next cell of the heap.
NewPtr(h) == Len(h) + 1

\* C5 (mutant): an OPENING record is marked CLOSING, for its task to close.
tunnel_free_closing(h, p) ==
    IF p = NULL THEN h
    ELSE CASE h[p].state = TUNNEL_STATE_OPENING ->
                [h EXCEPT ![p].state = TUNNEL_STATE_CLOSING]
           [] h[p].state = TUNNEL_STATE_DELETING -> h
           [] OTHER -> [h EXCEPT ![p] = FreedRecord]

\* tunnel_free: OPENING is left to the activate task (DELETING), DELETING is
\* ignored, any other state closes the driver and destroys the record.
tunnel_free(h, p) ==
    IF p = NULL THEN h
    ELSE CASE h[p].state = TUNNEL_STATE_OPENING ->
                [h EXCEPT ![p].state = TUNNEL_STATE_DELETING]
           [] h[p].state = TUNNEL_STATE_DELETING -> h
           [] OTHER -> [h EXCEPT ![p] = FreedRecord]

\* ------------------------------------------------------------ tunnel sets

tunnel_set_insert(set, p) == Append(set, p)

\* Index (1-based) of the first element with the URL, 0 when there is none.
tunnel_set_lookup(h, set, url) ==
    LET hits == {i \in 1..Len(set) : h[set[i]].url = url}
    IN  IF hits = {} THEN 0 ELSE CHOOSE i \in hits : \A j \in hits : i <= j

\* tunnel_set_replace: the set after the swap, and the displaced record.
tunnel_set_replace(h, set, p) ==
    LET i == tunnel_set_lookup(h, set, h[p].url)
    IN  IF i = 0 THEN [set |-> set, old |-> NULL]
        ELSE [set |-> [set EXCEPT ![i] = p], old |-> set[i]]

\* tunnel_set_delete: the set without its first element with the URL (the
\* rest keep their order), and the removed record.
tunnel_set_delete(h, set, url) ==
    LET i == tunnel_set_lookup(h, set, url)
    IN  IF i = 0 THEN [set |-> set, old |-> NULL]
        ELSE [set |-> SubSeq(set, 1, i - 1) \o SubSeq(set, i + 1, Len(set)),
              old |-> set[i]]

\* ------------------------------------------------------------ threads

RECURSIVE SortedSeq(_)
\* The elements of a set of numbers, ascending.
SortedSeq(S) ==
    IF S = {} THEN <<>>
    ELSE LET m == CHOOSE x \in S : \A y \in S : x <= y
         IN  <<m>> \o SortedSeq(S \ {m})

SeqRange(s) == {s[i] : i \in 1..Len(s)}

\* The thread tunnel_activate(tunnel), at the start of tunnel_try_activate.
\* opens and unlocked are not in the code: the cktp_open_tunnel calls the
\* thread has made, and the fields it has read or written without the lock.
ActivateTask(p) ==
    [kind |-> "activate", pc |-> "enter", tunnel |-> p, url |-> <<>>,
     retries |-> MAX_RETRIES, result |-> FALSE, id |-> 0, src |-> NULL,
     opens |-> 0, unlocked |-> {}]

\* The thread tunnel_reconnect(url), before its tunnel_create.  id is what
\* tunnel_create read from its id counter.  src is not in the code: it
\* remembers the record whose reconnect flag the manager set.
ReconnectTask(url, src) ==
    [kind |-> "reconnect", pc |-> "create", tunnel |-> NULL, url |-> url,
     retries |-> MAX_RETRIES, result |-> FALSE, id |-> 0, src |-> src,
     opens |-> 0, unlocked |-> {}]

\* thread_create for each of new.  The threads are kept as a set: no two
\* threads of the model are ever equal (TasksDistinct).
Spawn(ts, new) == ts \cup SeqRange(new)

\* A thread steps from t to t2.
Step(ts, t, t2) == (ts \ {t}) \cup {t2}

LockFree == tunnels_lock = "free" /\ ~panicked

\* tunnel_open has run: the startup sequence is over.
Started == mgr_pc \notin {"init", "read"}

\* ------------------------------------------------------------ admin operations

\* The critical section of tunnel_add and its thread_create.  The "already
\* open or opening" return changes nothing and is left out.
tunnel_add_locked(url) ==
    /\ LockFree
    /\ LET idx == tunnel_set_lookup(heap, tunnels_cache, url)
       IN  IF idx = 0
           THEN /\ Len(heap) < MaxRec
                /\ heap' = Append(heap,
                       [tunnel_create(url, TUNNEL_INIT_AGE, next_id)
                           EXCEPT !.state = TUNNEL_STATE_OPENING])
                /\ next_id' = (next_id + 1) % 65536
                /\ tunnels_cache' = tunnel_set_insert(tunnels_cache, NewPtr(heap))
                /\ tasks' = Spawn(tasks, <<ActivateTask(NewPtr(heap))>>)
           ELSE LET p == tunnels_cache[idx]
                IN  /\ heap[p].state \notin {TUNNEL_STATE_OPEN, TUNNEL_STATE_OPENING}
                    /\ heap' = [heap EXCEPT ![p].state = TUNNEL_STATE_OPENING]
                    /\ tasks' = Spawn(tasks, <<ActivateTask(p)>>)
                    /\ UNCHANGED <<next_id, tunnels_cache>>
    /\ UNCHANGED <<tunnels_active, tunnels_lock, mgr_pc, panicked>>

\* tunnel_add, as the lifecycle sees it: the tunnel_file_write it ends with
\* changes only the cache files, which nothing in the lifecycle reads
\* (AddAndWrite below has it).
tunnel_add(url) == tunnel_add_locked(url) /\ UNCHANGED io

\* C14 (mutant): the switch of tunnel_delete without its case for OPENING.
DeleteActiveOpenOnly(h, p) ==
    CASE h[p].state = TUNNEL_STATE_CLOSING -> [heap |-> h, panic |-> FALSE]
      [] h[p].state = TUNNEL_STATE_OPEN ->
              [heap |-> [h EXCEPT ![p].tunnel = NULL,
                                  ![p].state = TUNNEL_STATE_CLOSED],
               panic |-> FALSE]
      [] OTHER -> [heap |-> h, panic |-> TRUE]

\* The switch of tunnel_delete on a record it removed from the active set.
DeleteActive(h, p) ==
    CASE h[p].state = TUNNEL_STATE_OPENING ->
              [heap |-> [h EXCEPT ![p].state = TUNNEL_STATE_CLOSING], panic |-> FALSE]
      [] h[p].state = TUNNEL_STATE_CLOSING -> [heap |-> h, panic |-> FALSE]
      [] h[p].state = TUNNEL_STATE_OPEN ->
              [heap |-> [h EXCEPT ![p].tunnel = NULL,
                                  ![p].state = TUNNEL_STATE_CLOSED],
               panic |-> FALSE]
      [] OTHER -> [heap |-> h, panic |-> TRUE]

\* The critical section of tunnel_delete.  Deleting a URL that is in neither
\* set changes nothing and is left out.
tunnel_delete_locked(url) ==
    /\ LockFree
    /\ LET da == tunnel_set_delete(heap, tunnels_active, url)
           dc == tunnel_set_delete(heap, tunnels_cache, url)
       IN  IF da.old = NULL
           THEN /\ dc.old # NULL
                /\ tunnels_cache' = dc.set
                /\ heap' = tunnel_free(heap, dc.old)
                /\ UNCHANGED <<tunnels_active, panicked>>
           ELSE /\ tunnels_active' = da.set
                /\ heap' = DeleteActive(heap, da.old).heap
                /\ panicked' = DeleteActive(heap, da.old).panic
                /\ UNCHANGED tunnels_cache
    /\ UNCHANGED <<next_id, tunnels_lock, tasks, mgr_pc>>

\* tunnel_delete, as the lifecycle sees it (DeleteAndWrite below has its
\* tunnel_file_write).
tunnel_delete(url) == tunnel_delete_locked(url) /\ UNCHANGED io

\* ------------------------------------------------------------ activate manager

\* size_t max = MAX_INIT_OPEN - tunnels_active.length + 1: unsigned, so with
\* more than MAX_INIT_OPEN + 1 active tunnels it wraps to a number larger than
\* any cache.
ManagerMax ==
    IF Len(tunnels_active) <= MAX_INIT_OPEN + 1
    THEN MAX_INIT_OPEN - Len(tunnels_active) + 1
    ELSE Len(tunnels_cache) + 1

\* C23 (mutant): the scan takes the records that are CLOSED or OPENING.
ManagerChosenOpening ==
    LET found == {i \in 1..Len(tunnels_cache) :
                      heap[tunnels_cache[i]].state \in
                          {TUNNEL_STATE_CLOSED, TUNNEL_STATE_OPENING}}
    IN  {i \in found : Cardinality({k \in found : k < i}) < ManagerMax}

\* The cache indices the manager's scan turns to OPENING: the first
\* ManagerMax records that are CLOSED.
ManagerChosen ==
    LET closed == {i \in 1..Len(tunnels_cache) :
                      heap[tunnels_cache[i]].state = TUNNEL_STATE_CLOSED}
    IN  {i \in closed : Cardinality({k \in closed : k < i}) < ManagerMax}

\* One round of tunnel_activate_manager's loop under the lock: it ends the
\* thread when it started ManagerMax tasks, and sleeps otherwise.
ManagerScan ==
    /\ mgr_pc = "scan"
    /\ LockFree
    /\ LET ptrs == {tunnels_cache[i] : i \in ManagerChosen}
           order == SortedSeq(ManagerChosen)
       IN  /\ heap' = [p \in DOMAIN heap |->
                          IF p \in ptrs
                          THEN [heap[p] EXCEPT !.state = TUNNEL_STATE_OPENING]
                          ELSE heap[p]]
           /\ tasks' = Spawn(tasks, [k \in 1..Len(order) |->
                                        ActivateTask(tunnels_cache[order[k]])])
           /\ mgr_pc' = IF Cardinality(ManagerChosen) = ManagerMax
                        THEN "done" ELSE "sleep"
    /\ UNCHANGED <<io, next_id, tunnels_cache, tunnels_active, tunnels_lock, panicked>>

\* The manager wakes up and reads tunnels_active.length (without the lock):
\* while (tunnels_active.length < MAX_INIT_OPEN).
ManagerWake ==
    /\ mgr_pc = "sleep"
    /\ ~panicked
    /\ mgr_pc' = IF Len(tunnels_active) < MAX_INIT_OPEN THEN "scan" ELSE "done"
    /\ UNCHANGED <<io, heap, next_id, tunnels_cache, tunnels_active, tunnels_lock,
                   tasks, panicked>>

\* ------------------------------------------------------------ tunnel_try_activate

\* The bound on ages: whether an activation of a record of this age may fail.
AgeMayDrop(age) == age <= 1 \/ age > TUNNEL_INIT_AGE - MaxAgeDrop

\* tunnel_try_activate of an activate task, from its entry (the lock is taken
\* to draw the stagger) to its return, as one step.  While the thread runs the
\* record is in no other thread's hands but for its state, which tunnel_delete
\* and tunnel_reconnect may turn to DELETING: the handle and the result are
\* read by tunnel_activate only.  So the step stands for the last read of the
\* state the loop makes:
\*   the state is OPENING: the last cktp_open_tunnel returned a handle (return
\*     true), or MAX_RETRIES opens returned NULL (return false);
\*   the state is no longer OPENING: return true, the handle being what it was
\*     (opened is false: the loop body never ran) or what the open that was
\*     under way returned.
TryActivate(t, opened, handle) ==
    /\ t \in tasks
    /\ t.kind = "activate"
    /\ t.pc = "enter"
    /\ LockFree
    /\ IF heap[t.tunnel].state = TUNNEL_STATE_OPENING
       THEN /\ opened
            /\ handle = NULL => AgeMayDrop(heap[t.tunnel].age)
            /\ heap' = [heap EXCEPT ![t.tunnel].tunnel = handle]
            /\ tasks' = Step(tasks, t,
                   [t EXCEPT !.pc = "final", !.result = (handle # NULL),
                             !.retries = IF handle # NULL THEN @ ELSE 0])
       ELSE /\ heap' = [heap EXCEPT ![t.tunnel].tunnel =
                                       IF opened THEN handle ELSE @]
            /\ tasks' = Step(tasks, t, [t EXCEPT !.pc = "final", !.result = TRUE])
    /\ UNCHANGED <<io, next_id, tunnels_cache, tunnels_active, tunnels_lock,
                   mgr_pc, panicked>>

\* tunnel_try_activate of an activate task, one step at a time.  It takes the
\* lock to draw the stagger and releases it.
TryEnter(t) ==
    /\ t \in tasks
    /\ t.kind = "activate"
    /\ t.pc = "enter"
    /\ LockFree
    /\ tasks' = Step(tasks, t, [t EXCEPT !.pc = "loop"])
    /\ UNCHANGED <<io, heap, next_id, tunnels_cache, tunnels_active,
                   tunnels_lock, mgr_pc, panicked>>

\* while (tunnel->state == TUNNEL_STATE_OPENING): the state is read without
\* the lock; the url is read for the log and the open.
TryCheck(t) ==
    /\ t \in tasks
    /\ t.pc = "loop"
    /\ ~panicked
    /\ tasks' = Step(tasks, t,
           IF heap[t.tunnel].state = TUNNEL_STATE_OPENING
           THEN [t EXCEPT !.pc = "open", !.unlocked = @ \cup {"state", "url"}]
           ELSE [t EXCEPT !.pc = "final", !.result = TRUE,
                          !.unlocked = @ \cup {"state"}])
    /\ UNCHANGED <<io, heap, next_id, tunnels_cache, tunnels_active,
                   tunnels_lock, mgr_pc, panicked>>

\* tunnel->tunnel = cktp_open_tunnel(tunnel->url): the handle is written, and
\* read back, without the lock.  A handle ends the function with true.
TryOpen(t, handle) ==
    /\ t \in tasks
    /\ t.pc = "open"
    /\ ~panicked
    /\ handle = NULL => AgeMayDrop(heap[t.tunnel].age)
    /\ heap' = [heap EXCEPT ![t.tunnel].tunnel = handle]
    /\ tasks' = Step(tasks, t,
           [t EXCEPT !.pc = IF handle # NULL THEN "final" ELSE "failed",
                     !.result = (handle # NULL),
                     !.opens = @ + 1,
                     !.unlocked = @ \cup {"tunnel"}])
    /\ UNCHANGED <<io, next_id, tunnels_cache, tunnels_active, tunnels_lock,
                   mgr_pc, panicked>>

\* After a failed open: the state is read again without the lock (break when
\* it is no longer OPENING: return true), retries is counted down (return
\* false at 0), and the thread sleeps before the next round.
TryRetry(t) ==
    /\ t \in tasks
    /\ t.pc = "failed"
    /\ ~panicked
    /\ tasks' = Step(tasks, t,
           IF heap[t.tunnel].state # TUNNEL_STATE_OPENING
           THEN [t EXCEPT !.pc = "final", !.result = TRUE]
           ELSE IF t.retries - 1 = 0
           THEN [t EXCEPT !.pc = "final", !.result = FALSE, !.retries = 0]
           ELSE [t EXCEPT !.pc = "loop", !.retries = @ - 1])
    /\ UNCHANGED <<io, heap, next_id, tunnels_cache, tunnels_active,
                   tunnels_lock, mgr_pc, panicked>>

\* ------------------------------------------------------------ activate task

\* C16 (mutant): the switch of tunnel_activate, a failed activation leaving
\* the age as it is.
ActivateSwitchKeepsAge(h, active, p, result) ==
    CASE h[p].state = TUNNEL_STATE_DELETING ->
            [heap |-> tunnel_free([h EXCEPT ![p].state = TUNNEL_STATE_OPEN], p),
             active |-> active, panic |-> FALSE]
      [] h[p].state = TUNNEL_STATE_CLOSING ->
            [heap |-> [h EXCEPT ![p].state = TUNNEL_STATE_CLOSED,
                                ![p].tunnel = NULL],
             active |-> active, panic |-> FALSE]
      [] h[p].state = TUNNEL_STATE_OPENING /\ result ->
            [heap |-> [h EXCEPT ![p].state = TUNNEL_STATE_OPEN,
                                ![p].age = TUNNEL_INIT_AGE],
             active |-> tunnel_set_insert(active, p), panic |-> FALSE]
      [] h[p].state = TUNNEL_STATE_OPENING /\ ~result ->
            [heap |-> [h EXCEPT ![p].state = TUNNEL_STATE_DEAD],
             active |-> active, panic |-> FALSE]
      [] OTHER -> [heap |-> h, active |-> active, panic |-> TRUE]

\* The switch of tunnel_activate on the record's final state.
ActivateSwitch(h, active, p, result) ==
    CASE h[p].state = TUNNEL_STATE_DELETING ->
            [heap |-> tunnel_free([h EXCEPT ![p].state = TUNNEL_STATE_OPEN], p),
             active |-> active, panic |-> FALSE]
      [] h[p].state = TUNNEL_STATE_CLOSING ->
            [heap |-> [h EXCEPT ![p].state = TUNNEL_STATE_CLOSED,
                                ![p].tunnel = NULL],
             active |-> active, panic |-> FALSE]
      [] h[p].state = TUNNEL_STATE_OPENING /\ result ->
            [heap |-> [h EXCEPT ![p].state = TUNNEL_STATE_OPEN,
                                ![p].age = TUNNEL_INIT_AGE],
             active |-> tunnel_set_insert(active, p), panic |-> FALSE]
      [] h[p].state = TUNNEL_STATE_OPENING /\ ~result ->
            [heap |-> [h EXCEPT ![p].state = TUNNEL_STATE_DEAD,
                                ![p].age = IF h[p].age = 0 THEN 0 ELSE h[p].age - 1],
             active |-> active, panic |-> FALSE]
      [] OTHER -> [heap |-> h, active |-> active, panic |-> TRUE]

\* tunnel_activate after tunnel_try_activate: the switch under the lock; the
\* thread ends.
tunnel_activate_locked(t) ==
    /\ t \in tasks
    /\ t.kind = "activate"
    /\ t.pc = "final"
    /\ LockFree
    /\ LET r == ActivateSwitch(heap, tunnels_active, t.tunnel,
                               t.result)
       IN  /\ heap' = r.heap
           /\ tunnels_active' = r.active
           /\ panicked' = r.panic
    /\ tasks' = tasks \ {t}
    /\ UNCHANGED <<next_id, tunnels_cache, tunnels_lock, mgr_pc>>

\* tunnel_activate, as the lifecycle sees it (ActivateAndWrite below has its
\* tunnel_file_write).
tunnel_activate(t) == tunnel_activate_locked(t) /\ UNCHANGED io

\* ------------------------------------------------------------ reconnect

\* One poll of tunnel_reconnect_manager under the lock; timed_out are the
\* active records whose driver reports a timeout.  A record is flagged, and a
\* thread started for its URL, when its reconnect flag is not set.
tunnel_reconnect_manager(timed_out) ==
    /\ LockFree
    /\ Started
    /\ Len(heap) < MaxRec
    /\ timed_out # {}
    /\ timed_out \subseteq {p \in SeqRange(tunnels_active) : ~heap[p].reconnect}
    /\ LET order == SortedSeq({i \in 1..Len(tunnels_active) :
                                  /\ tunnels_active[i] \in timed_out
                                  /\ \A k \in 1..(i-1) :
                                        tunnels_active[k] # tunnels_active[i]})
       IN  /\ heap' = [p \in DOMAIN heap |->
                          IF p \in timed_out
                          THEN [heap[p] EXCEPT !.reconnect = TRUE]
                          ELSE heap[p]]
           /\ tasks' = Spawn(tasks, [k \in 1..Len(order) |->
                  ReconnectTask(heap[tunnels_active[order[k]]].url,
                                tunnels_active[order[k]])])
    /\ UNCHANGED <<io, next_id, tunnels_cache, tunnels_active, tunnels_lock,
                   mgr_pc, panicked>>

\* tunnel_reconnect from the write of the id counter (id++ ends) to the end
\* of its tunnel_try_activate: the new record is OPENING and, being in no set,
\* stays so; the loop ends with a handle (result true) or, after MAX_RETRIES
\* failed opens, without (false).  No other thread can reach the record
\* before the thread's last step, so the steps are taken as one.
\* tunnel_reconnect reads the static id counter of tunnel_create.  It holds
\* no lock, so the counter may move before the thread writes it back.
ReconnectCreate(t) ==
    /\ t \in tasks
    /\ t.kind = "reconnect"
    /\ t.pc = "create"
    /\ ~panicked
    /\ Len(heap) < MaxRec
    /\ tasks' = Step(tasks, t, [t EXCEPT !.pc = "made", !.id = next_id])
    /\ UNCHANGED <<io, heap, next_id, tunnels_cache, tunnels_active,
                   tunnels_lock, mgr_pc, panicked>>

ReconnectTry(t, handle) ==
    /\ t \in tasks
    /\ t.kind = "reconnect"
    /\ t.pc = "made"
    /\ LockFree
    /\ Len(heap) < MaxRec
    /\ heap' = Append(heap,
           [tunnel_create(t.url, TUNNEL_INIT_AGE, t.id)
               EXCEPT !.state = TUNNEL_STATE_OPENING, !.tunnel = handle])
    /\ next_id' = (t.id + 1) % 65536
    /\ tasks' = Step(tasks, t,
           [t EXCEPT !.pc = "final", !.tunnel = NewPtr(heap), !.id = 0,
                     !.result = (handle # NULL),
                     !.retries = IF handle # NULL THEN t.retries ELSE 0])
    /\ UNCHANGED <<io, tunnels_cache, tunnels_active, tunnels_lock, mgr_pc, panicked>>

\* C3 (mutant): the new record replaces the old one in the active set only.
ReconnectSuccessActiveOnly(h, active, cache, p) ==
    LET ra == tunnel_set_replace(h, active, p)
    IN  [active |-> ra.set, cache |-> cache,
         replaced_active |-> ra.old, replaced_cache |-> NULL,
         heap |-> IF ra.old # NULL THEN tunnel_free(h, ra.old)
                                   ELSE tunnel_free(h, p)]

\* The success branch of tunnel_reconnect under the lock, and the tunnel_free
\* after it: the new record p replaces the old one in both sets.
ReconnectSuccess(h, active, cache, p) ==
    LET ra == tunnel_set_replace(h, active, p)
        rc == tunnel_set_replace(h, cache, p)
    IN  [active |-> ra.set, cache |-> rc.set,
         replaced_active |-> ra.old, replaced_cache |-> rc.old,
         heap |-> IF ra.old # NULL THEN tunnel_free(h, ra.old)
                  ELSE IF rc.old # NULL
                  THEN tunnel_free([h EXCEPT ![p].tunnel = NULL,
                                             ![p].state = TUNNEL_STATE_DEAD,
                                             ![p].reconnect = FALSE], rc.old)
                  ELSE tunnel_free(h, p)]

ReconnectReplace(t) ==
    /\ t \in tasks
    /\ t.kind = "reconnect"
    /\ t.pc = "final"
    /\ t.result
    /\ LockFree
    /\ LET r == ReconnectSuccess(heap, tunnels_active, tunnels_cache,
                                 t.tunnel)
       IN  /\ tunnels_active' = r.active
           /\ tunnels_cache' = r.cache
           /\ heap' = r.heap
    /\ tasks' = tasks \ {t}
    /\ UNCHANGED <<io, next_id, tunnels_lock, mgr_pc, panicked>>

\* The failure branch of tunnel_reconnect: url, the string freed at the start
\* of the thread, is deleted from the active set, and the new record p is
\* marked DEAD when a record was removed; then p is freed.
ReconnectFailure(h, active, p, url) ==
    LET da == tunnel_set_delete(h, active, url)
    IN  [active |-> da.set, old_tunnel |-> da.old,
         heap |-> IF da.old # NULL
                  THEN tunnel_free([h EXCEPT ![p].tunnel = NULL,
                                             ![p].state = TUNNEL_STATE_DEAD,
                                             ![p].reconnect = FALSE], p)
                  ELSE tunnel_free(h, p)]

\* url is what the freed string reads as: any URL, or bytes that match none.
ReconnectGiveUp(t, url) ==
    /\ t \in tasks
    /\ t.kind = "reconnect"
    /\ t.pc = "final"
    /\ ~t.result
    /\ LockFree
    /\ LET r == ReconnectFailure(heap, tunnels_active, t.tunnel, url)
       IN  /\ tunnels_active' = r.active
           /\ heap' = r.heap
    /\ tasks' = tasks \ {t}
    /\ UNCHANGED <<io, next_id, tunnels_cache, tunnels_lock, mgr_pc, panicked>>

\* ------------------------------------------------------------ specification

\* The caches a cache file without repeated URLs leaves: every sequence of
\* distinct URLs, each with an age.
InitUrlSeqs ==
    {s \in UNION {[1..n -> Urls] : n \in 0..Cardinality(Urls)} :
        \A i, j \in 1..Len(s) : i # j => s[i] # s[j]}

\* After tunnel_init, tunnel_file_read and tunnel_open: the cache holds CLOSED
\* records, nothing is active, both managers run.
Init ==
    /\ \E us \in InitUrlSeqs : \E ages \in [1..Len(us) -> InitAges] :
          heap = [k \in 1..Len(us) |-> tunnel_create(us[k], ages[k], k - 1)]
    /\ next_id = Len(heap)
    /\ tunnels_cache = [k \in 1..Len(heap) |-> k]
    /\ tunnels_active = <<>>
    /\ tunnels_lock = "free"
    /\ tasks = {}
    /\ mgr_pc = "scan"
    /\ panicked = FALSE
    /\ disk = NoDisk
    /\ tunnel_history = NoHistory
    /\ ret = NoRet
    /\ npackets = 0
    /\ writer = NoWriter

Next ==
    \/ \E u \in Urls : tunnel_add(u)
    \/ \E u \in Urls : tunnel_delete(u)
    \/ ManagerScan
    \/ ManagerWake
    \/ \E t \in tasks : \E o \in BOOLEAN : \E h \in {NULL, HANDLE} :
          TryActivate(t, o, h)
    \/ \E t \in tasks : tunnel_activate(t)
    \/ \E S \in SUBSET SeqRange(tunnels_active) : tunnel_reconnect_manager(S)
    \/ \E t \in tasks : ReconnectCreate(t)
    \/ \E t \in tasks : \E h \in {NULL, HANDLE} : ReconnectTry(t, h)
    \/ \E t \in tasks : ReconnectReplace(t)
    \/ \E t \in tasks : \E u \in Urls \cup {GARBAGE} : ReconnectGiveUp(t, u)

Spec == Init /\ [][Next]_vars

\* ------------------------------------------------------------ the two sets

InActive(p) == \E i \in 1..Len(tunnels_active) : tunnels_active[i] = p
InCache(p)  == \E i \in 1..Len(tunnels_cache) : tunnels_cache[i] = p

ActivateTasks  == {t \in tasks : t.kind = "activate"}
ReconnectTasks == {t \in tasks : t.kind = "reconnect"}

\* Why a set holds the threads: a thread is started for a record that has
\* none.  An activate thread is started for a cache record that is not
\* OPENING, and the record of a running one is OPENING, or DELETING and out of
\* the cache; a reconnect thread is started for an active record without the
\* reconnect flag, and the record a running one was started for has the flag
\* or is freed.
TasksDistinct ==
    /\ \A t \in ActivateTasks :
          \/ heap[t.tunnel].state = TUNNEL_STATE_OPENING
          \/ heap[t.tunnel].state = TUNNEL_STATE_DELETING /\ ~InCache(t.tunnel)
    /\ \A t \in ReconnectTasks :
          heap[t.src].reconnect \/ heap[t.src].mem = "freed"
    /\ \A t1, t2 \in tasks :
          (t1.tunnel = t2.tunnel /\ t1.src = t2.src) => t1 = t2

\* C1: every record in the active set is OPEN, CLOSING or DELETING (never
\* OPENING, CLOSED or DEAD) at every release of the lock.
C1_ActiveStates ==
    \A i \in 1..Len(tunnels_active) :
        heap[tunnels_active[i]].state \in
            {TUNNEL_STATE_OPEN, TUNNEL_STATE_CLOSING, TUNNEL_STATE_DELETING}

\* C2: every record that is in the cache set but not in the active set is
\* CLOSED, DEAD, OPENING or DELETING (never OPEN or CLOSING) at every release
\* of the lock.
C2_CacheOnlyStates ==
    \A i \in 1..Len(tunnels_cache) :
        ~InActive(tunnels_cache[i]) =>
            heap[tunnels_cache[i]].state \in
                {TUNNEL_STATE_CLOSED, TUNNEL_STATE_DEAD, TUNNEL_STATE_OPENING,
                 TUNNEL_STATE_DELETING}

DeleteBeforeFinal(p) ==
    /\ InCache(p)
    /\ heap[p].state = TUNNEL_STATE_OPENING
    /\ \E t \in ActivateTasks : t.tunnel = p
    /\ tunnel_delete(heap[p].url)

\* The activate task of a record that delete turned to state st finalises.
FinalAfterDelete(t, st) ==
    /\ t \in ActivateTasks
    /\ heap[t.tunnel].state = st
    /\ tunnel_activate(t)

\* C5 (as stated): when delete(X) runs on an OPENING X before the activate
\* task finalises, X goes to CLOSING and stays in the cache with its age; the
\* task then finalises by closing the driver and setting X to CLOSED, X still
\* in the cache with its age.
C5_DeleteWhileOpening ==
    [][ /\ \A p \in DOMAIN heap :
             DeleteBeforeFinal(p) =>
                 /\ heap'[p].state = TUNNEL_STATE_CLOSING
                 /\ \E i \in 1..Len(tunnels_cache') : tunnels_cache'[i] = p
                 /\ heap'[p].age = heap[p].age
        /\ \A t \in tasks :
             FinalAfterDelete(t, TUNNEL_STATE_CLOSING) =>
                 /\ heap'[t.tunnel].state = TUNNEL_STATE_CLOSED
                 /\ heap'[t.tunnel].tunnel = NULL
                 /\ \E i \in 1..Len(tunnels_cache') : tunnels_cache'[i] = t.tunnel
                 /\ heap'[t.tunnel].age = heap[t.tunnel].age
      ]_vars

\* C5 (amended): when delete(X) runs on an OPENING X before the activate task
\* finalises, X leaves the cache and goes to DELETING (it is in neither set);
\* the task then finalises by closing the driver and destroying the record.
C5_DeleteWhileOpeningFrees ==
    [][ /\ \A p \in DOMAIN heap :
             DeleteBeforeFinal(p) =>
                 /\ heap'[p].state = TUNNEL_STATE_DELETING
                 /\ \A i \in 1..Len(tunnels_cache') : tunnels_cache'[i] # p
                 /\ \A i \in 1..Len(tunnels_active') : tunnels_active'[i] # p
                 /\ heap'[p].age = heap[p].age
        /\ \A t \in tasks :
             FinalAfterDelete(t, TUNNEL_STATE_DELETING) =>
                 /\ heap'[t.tunnel] = FreedRecord
                 /\ \A i \in 1..Len(tunnels_cache') : tunnels_cache'[i] # t.tunnel
                 /\ \A i \in 1..Len(tunnels_active') : tunnels_active'[i] # t.tunnel
      ]_vars

\* C5 (witness): delete has run on an OPENING record whose activate task has
\* opened the driver and is about to finalise.
C5_Witness ==
    \E t \in ActivateTasks :
        /\ t.pc = "final"
        /\ heap[t.tunnel].state = TUNNEL_STATE_DELETING
        /\ heap[t.tunnel].tunnel = HANDLE
        /\ ~InCache(t.tunnel)

\* C7: at most one reconnect task is in flight for a URL.
C7_OneReconnectPerUrl ==
    \A t1, t2 \in ReconnectTasks : t1.url = t2.url => t1 = t2

\* The case of C8: this step is the success branch of reconnect task t, and
\* its replace on the active set finds record old.
ReplaceFinds(t, old) ==
    /\ t \in ReconnectTasks
    /\ t.pc = "final"
    /\ old # NULL
    /\ tunnel_set_replace(heap, tunnels_active, t.tunnel).old = old
    /\ ReconnectReplace(t)

\* C8: every successful reconnect whose replace on the active set finds a
\* record leaves the new record in both sets with weight 1.0 and age
\* TUNNEL_INIT_AGE, and destroys the displaced record with its driver closed.
C8_ReconnectReplaces ==
    [][ \A t \in tasks : \A old \in DOMAIN heap :
            ReplaceFinds(t, old) =>
                /\ \E i \in 1..Len(tunnels_active') : tunnels_active'[i] = t.tunnel
                /\ \E i \in 1..Len(tunnels_cache') : tunnels_cache'[i] = t.tunnel
                /\ heap'[t.tunnel].weight = WEIGHT_ONE
                /\ heap'[t.tunnel].age = TUNNEL_INIT_AGE
                /\ heap'[old] = FreedRecord
      ]_vars

\* C14: no interleaving of add, delete, the activate manager, activate tasks
\* and reconnect tasks reaches panic("unexpected tunnel state"), neither in
\* the switch of tunnel_activate nor in the switch of tunnel_delete.
C14_NoPanic == ~panicked

\* C14 (witness): tunnel_delete has removed from the active set a record that
\* was not OPEN (a reconnect left it OPENING), and the process lives.
C14_Witness ==
    /\ ~panicked
    /\ \E p \in DOMAIN heap :
          /\ heap[p].state = TUNNEL_STATE_CLOSING
          /\ InCache(p)
          /\ ~InActive(p)

\* ------------------------------------------------------------ threads run on

\* A step of thread t of the lifecycle.
TaskStep(t) ==
    \/ \E o \in BOOLEAN : \E h \in {NULL, HANDLE} : TryActivate(t, o, h)
    \/ tunnel_activate(t)
    \/ ReconnectCreate(t)
    \/ \E h \in {NULL, HANDLE} : ReconnectTry(t, h)
    \/ ReconnectReplace(t)
    \/ \E u \in Urls \cup {GARBAGE} : ReconnectGiveUp(t, u)

\* The thread of kind k that was started for record p (there is one at most).
TaskOf(k, p) ==
    {t \in tasks : t.kind = k /\ (IF k = "activate" THEN t.tunnel ELSE t.src) = p}

\* Every thread that was started goes on running: the scheduler lets no
\* thread wait forever.  The administrator and the timeouts are under no
\* such obligation.
SpecLive ==
    /\ Init
    /\ [][Next]_vars
    /\ \A k \in {"activate", "reconnect"} : \A p \in 1..MaxRec :
          WF_vars(\E t \in TaskOf(k, p) : TaskStep(t))

\* C17: every record that tunnel_free moves from OPENING to DELETING is
\* eventually destroyed, its driver handle closed.
C17_DeletingIsDestroyed ==
    \A p \in 1..MaxRec :
        [] ((p \in DOMAIN heap /\ heap[p].state = TUNNEL_STATE_DELETING)
               => <>(p \in DOMAIN heap /\ heap[p] = FreedRecord))

\* ------------------------------------------------------------ the retry loop

\* add, delete and the activate tasks they start, tunnel_try_activate taken
\* step by step (the activate manager has not run yet).
NextTry ==
    \/ \E u \in Urls : tunnel_add(u)
    \/ \E u \in Urls : tunnel_delete(u)
    \/ \E t \in tasks : TryEnter(t)
    \/ \E t \in tasks : TryCheck(t)
    \/ \E t \in tasks : \E h \in {NULL, HANDLE} : TryOpen(t, h)
    \/ \E t \in tasks : TryRetry(t)
    \/ \E t \in tasks : tunnel_activate(t)

SpecTry == Init /\ [][NextTry]_vars

\* The case of C16: every open of task t failed (the record has no handle)
\* and the record is still OPENING when this step finalises the task.
FinalAfterFailures(t) ==
    /\ t \in ActivateTasks
    /\ t.pc = "final"
    /\ heap[t.tunnel].state = TUNNEL_STATE_OPENING
    /\ heap[t.tunnel].tunnel = NULL
    /\ tunnel_activate(t)

\* C16: an activate task calls cktp_open_tunnel at most MAX_RETRIES times; if
\* every attempt fails while the record stays OPENING, the record ends DEAD,
\* is not inserted into the active set, and its age is one less, or 0 still.
C16_GivesUpAfterRetries ==
    [][ /\ \A t \in tasks' : t.opens <= MAX_RETRIES
        /\ \A t \in tasks :
             FinalAfterFailures(t) =>
                 /\ t.opens = MAX_RETRIES
                 /\ heap'[t.tunnel].state = TUNNEL_STATE_DEAD
                 /\ \A i \in 1..Len(tunnels_active') :
                       tunnels_active'[i] # t.tunnel
                 /\ heap'[t.tunnel].age =
                       IF heap[t.tunnel].age = 0 THEN 0
                       ELSE heap[t.tunnel].age - 1
      ]_vars

\* C16 (witness): a record of age 0 is given up once more: three opens have
\* failed and the task is about to finalise the record, which is OPENING.
C16_Witness ==
    \E t \in ActivateTasks :
        /\ t.pc = "final"
        /\ t.opens = MAX_RETRIES
        /\ ~t.result
        /\ heap[t.tunnel].state = TUNNEL_STATE_OPENING
        /\ heap[t.tunnel].age = 0

\* C18: no thread reads or writes a mutable field of a record (state, driver
\* handle, age, weight, reconnect) without holding the lock: only url and id
\* are accessed unlocked.
C18_LockedAccess ==
    \A t \in tasks : t.unlocked \subseteq {"url", "id"}

\* ------------------------------------------------------------ cold start

\* The URLs of the cold cache: one more than MAX_INIT_OPEN.
ColdUrls == <<"A", "B", "C", "D", "E", "F", "G", "H", "I">>

\* After the startup sequence on a cache file that lists ColdUrls, each with
\* the age ColdAge: every record is CLOSED and nothing is active.
InitCold ==
    /\ heap = [k \in 1..Len(ColdUrls) |-> tunnel_create(<<ColdUrls[k]>>, ColdAge, k - 1)]
    /\ next_id = Len(ColdUrls)
    /\ tunnels_cache = [k \in 1..Len(ColdUrls) |-> k]
    /\ tunnels_active = <<>>
    /\ tunnels_lock = "free"
    /\ tasks = {}
    /\ mgr_pc = "scan"
    /\ panicked = FALSE
    /\ disk = NoDisk
    /\ tunnel_history = NoHistory
    /\ ret = NoRet
    /\ npackets = 0
    /\ writer = NoWriter

\* No admin operation, no timeout, and cktp_open_tunnel always returns a
\* handle.  The scan of a cache of MAX_INIT_OPEN + 1 CLOSED records starts max
\* tasks, so the manager ends without sleeping.
NextCold ==
    \/ ManagerScan
    \/ \E t \in tasks : TryActivate(t, TRUE, HANDLE)
    \/ \E t \in tasks : tunnel_activate(t)

SpecCold == InitCold /\ [][NextCold]_vars

\* C6: cold start with MAX_INIT_OPEN + 1 CLOSED tunnels whose open always
\* succeeds: once the manager has ended and every activate task has finalised,
\* the active set holds exactly MAX_INIT_OPEN records, each with age
\* TUNNEL_INIT_AGE and weight 1.0.
C6_ColdStartOpens ==
    (mgr_pc = "done" /\ tasks = {}) =>
        /\ Len(tunnels_active) = MAX_INIT_OPEN
        /\ \A i \in 1..Len(tunnels_active) :
              /\ heap[tunnels_active[i]].age = TUNNEL_INIT_AGE
              /\ heap[tunnels_active[i]].weight = WEIGHT_ONE

\* C15: the activate manager ends only in a round in which it found no CLOSED
\* cache record to open and with at least MAX_INIT_OPEN active tunnels; it
\* never ends while there are fewer.
C15_ManagerEnds ==
    [][ (mgr_pc # "done" /\ mgr_pc' = "done") =>
            /\ Len(tunnels_active) >= MAX_INIT_OPEN
            /\ ManagerChosen = {}
      ]_vars

\* ------------------------------------------------------------ tunnel_get

\* A hash of the model is 2 * HashHalfBits bits wide, where the code's is 64:
\* HashHalf stands for 2^32 and HashHalf - 1 for UINT32_MAX.
HashHalf == 2 ^ HashHalfBits
UINT32_MAX == HashHalf - 1
Hashes == 0..(HashHalf * HashHalf - 1)
Repeats == 0..MaxRepeat

RECURSIVE BitXor(_, _, _)
\* a ^ b on n bits.
BitXor(a, b, n) ==
    IF n = 0 THEN 0
    ELSE (((a % 2) + (b % 2)) % 2) + 2 * BitXor(a \div 2, b \div 2, n - 1)

hist_idx(hash)  == hash % TUNNEL_HISTORY_SIZE
\* (uint32_t)(hash ^ (hash >> 32)): the low half xor the high half.
hist_hash(hash) == BitXor(hash % HashHalf, hash \div HashHalf, HashHalfBits)
\* uint32_t weight_hash = hist_hash * (repeat + 1): it wraps.
weight_hash(hash, repeat) == (hist_hash(hash) * (repeat + 1)) % HashHalf

RECURSIVE SumWeights(_, _, _)
\* total_weight: the weights of active[1..n], added up.
SumWeights(h, active, n) ==
    IF n = 0 THEN 0 ELSE SumWeights(h, active, n - 1) + h[active[n]].weight

RECURSIVE Walk(_, _, _, _)
\* The walk for (idx = 0; idx < length && pick >= weight[idx]; idx++).  pick is
\* kept times UINT32_MAX, so that it is exact; idx is the code's, from 0.
Walk(h, active, idx, pick) ==
    IF idx < Len(active) /\ pick >= h[active[idx + 1]].weight * UINT32_MAX
    THEN Walk(h, active, idx + 1, pick - h[active[idx + 1]].weight * UINT32_MAX)
    ELSE idx

\* C11 (mutant): bad_tunnel->weight * 0.75, with no lower limit.
PunishedNoFloor(w) == (w * 3) \div 4

\* bad_tunnel->weight * 0.75, not below 0.005.
Punished(w) == IF (w * 3) \div 4 < WEIGHT_ONE \div 200
               THEN WEIGHT_ONE \div 200 ELSE (w * 3) \div 4
\* tunnel->weight + 0.15 * tunnel->weight, not above 1.0.
Rewarded(w) == IF w + (w * 15) \div 100 > WEIGHT_ONE
               THEN WEIGHT_ONE ELSE w + (w * 15) \div 100

\* The first active record whose id is the one the history slot holds, when
\* the slot holds this hist_hash and the packet is a repeat; NULL otherwise.
BadTunnel(h, active, slot, hh, repeat) ==
    LET hits == {i \in 1..Len(active) : h[active[i]].id = slot.id}
    IN  IF repeat # 0 /\ slot.hash = hh /\ hits # {}
        THEN active[CHOOSE i \in hits : \A j \in hits : i <= j]
        ELSE NULL

\* tunnel_get on a non-empty active set.  stray is what the array reads as one
\* past its last element (a record, NULL, or WILD: no record at all), which is
\* what the code reads when the walk ends at idx = length.  A tunnel of NULL or
\* WILD is where the code's next line, the write of tunnel->weight, faults.
tunnel_get(h, active, history, hash, repeat, stray) ==
    LET hh    == hist_hash(hash)
        slot  == history[hist_idx(hash)]
        walk  == Walk(h, active, 0,
                      weight_hash(hash, repeat) * SumWeights(h, active, Len(active)))
        first == IF walk < Len(active) THEN active[walk + 1] ELSE stray
        bad   == BadTunnel(h, active, slot, hh, repeat)
        h1    == IF bad = NULL THEN h
                 ELSE [h EXCEPT ![bad].weight = Punished(@)]
        idx   == IF repeat # 0 /\ first = bad
                 THEN (walk + 1) % Len(active) ELSE walk
        tunnel == IF repeat # 0 /\ first = bad THEN active[idx + 1] ELSE first
    IN  IF tunnel \in {WILD, NULL}
        THEN [heap |-> h1, history |-> history, walk |-> walk, idx |-> idx,
              tunnel |-> tunnel, first |-> first, bad |-> bad]
        ELSE [heap |-> [h1 EXCEPT ![tunnel].weight = Rewarded(@)],
              history |-> [history EXCEPT ![hist_idx(hash)] =
                              [hash |-> hh, id |-> h1[tunnel].id]],
              walk |-> walk, idx |-> idx, tunnel |-> tunnel,
              first |-> first, bad |-> bad]

\* ------------------------------------------------------------ tunnel_packets

\* What the slot past the end of the active array may hold.
Strays == {p \in DOMAIN heap : heap[p].mem = "live"} \cup {NULL, WILD}

\* The length of a tunneled packet, and what cktp_tunnel_get_mtu may return:
\* nothing, less than the packet, enough for it.
PacketLens == {2}
Mtus       == {0, 1, 2}

\* tunnel_packets for one packet of length tot_len.  The process is lost
\* (panicked) when tunnel_get faults; the lock stays taken where the code
\* returns without thread_unlock.
tunnel_packets(hash, repeat, tot_len, mtu, stray) ==
    /\ LockFree
    /\ npackets < MaxPackets
    /\ npackets' = npackets + 1
    /\ IF Len(tunnels_active) = 0
       THEN /\ ret' = [op |-> "packets", length |-> 0, walk |-> 0, idx |-> 0,
                       tunnel |-> NULL, first |-> NULL, bad |-> NULL,
                       hash |-> hash, repeat |-> repeat, result |-> FALSE, sent |-> FALSE]
            /\ UNCHANGED <<heap, tunnel_history, tunnels_lock, panicked>>
       ELSE LET g == tunnel_get(heap, tunnels_active, tunnel_history,
                                hash, repeat, stray)
            IN  \* stray is read only when the walk ends past the array
                /\ g.walk = Len(tunnels_active) \/ stray = NULL
                /\ heap' = g.heap
                /\ tunnel_history' = g.history
                /\ panicked' = (g.tunnel \in {WILD, NULL})
                /\ tunnels_lock' = IF g.tunnel \notin {WILD, NULL} /\ mtu = 0
                                   THEN "tunnel_packets" ELSE "free"
                /\ ret' = [op |-> "packets", length |-> Len(tunnels_active),
                           walk |-> g.walk, idx |-> g.idx, tunnel |-> g.tunnel,
                           first |-> g.first, bad |-> g.bad, hash |-> hash,
                           repeat |-> repeat,
                           result |-> (g.tunnel \notin {WILD, NULL} /\ mtu # 0),
                           sent |-> (g.tunnel \notin {WILD, NULL} /\ mtu # 0
                                      /\ tot_len <= mtu)]
    /\ UNCHANGED <<next_id, tunnels_cache, tunnels_active, tasks, mgr_pc, disk,
                   writer>>

\* ------------------------------------------------------------ the cache file

\* A file is a string of characters.  The text of a comment is cut short: a
\* comment is '#', its text and a newline.
RECURSIVE Dec(_)
\* printf("%u", n).
Dec(n) ==
    IF n < 10 THEN <<Digits[n + 1]>> ELSE Dec(n \div 10) \o <<Digits[(n % 10) + 1]>>

\* The two comments and the blank line tunnel_file_write starts the file with.
FileHeader == <<"#", "\n", "#", "\n", "\n">>

\* C13 (mutant): a record is printed whatever its age.
FileRecordAll(r) ==
    <<"#">> \o Dec(r.age) \o <<"\n">> \o
    r.url \o <<" ">> \o Dec(r.age) \o <<"\n", "\n">>

\* What tunnel_file_write prints for one record: nothing at age 0.
FileRecord(r) ==
    IF r.age = 0 THEN <<>>
    ELSE <<"#">> \o Dec(r.age) \o <<"\n">> \o
         r.url \o <<" ">> \o Dec(r.age) \o <<"\n", "\n">>

RECURSIVE FileRecords(_, _, _)
\* The records of cache[1..n], in order.
FileRecords(h, cache, n) ==
    IF n = 0 THEN <<>>
    ELSE FileRecords(h, cache, n - 1) \o FileRecord(h[cache[n]])

\* tunnel_file_write (without WINDOWS): the cache file becomes the backup, the
\* image is written to the temporary file, which becomes the cache file.  When
\* the temporary file cannot be opened (fopen_ok is false) the code returns
\* without thread_unlock.
tunnel_file_write(fopen_ok) ==
    /\ LockFree
    /\ LET renamed == IF disk.pri = ABSENT THEN disk
                      ELSE [disk EXCEPT !.bak = disk.pri, !.pri = ABSENT]
           image   == FileHeader \o
                      FileRecords(heap, tunnels_cache, Len(tunnels_cache))
       IN  IF fopen_ok
           THEN /\ disk' = [renamed EXCEPT !.pri = image, !.tmp = ABSENT]
                /\ UNCHANGED tunnels_lock
           ELSE /\ disk' = renamed
                /\ tunnels_lock' = "tunnel_file_write"
    /\ UNCHANGED <<heap, next_id, tunnels_cache, tunnels_active, tasks, mgr_pc,
                   panicked, tunnel_history, ret, npackets, writer>>

\* What getc returns at the end of the file.
EOF == "EOF"

\* getc at position pos (from 1).
Getc(f, pos) == IF pos <= Len(f) THEN f[pos] ELSE EOF

RECURSIVE SkipComment(_, _)
\* while ((c = getc(file)) != '\n' && c != EOF): the position after it.
SkipComment(f, pos) ==
    IF Getc(f, pos) \in {"\n", EOF} THEN pos + 1 ELSE SkipComment(f, pos + 1)

RECURSIVE UrlEnd(_, _, _)
\* The URL loop, url[0] being the character at pos: the i it ends with.  It
\* ends at a space, at MaxUrlLen characters, or one step after getc met the
\* end of the file.
UrlEnd(f, pos, i) ==
    IF Getc(f, pos + i) # " " /\ i < MaxUrlLen /\ Getc(f, pos + i) # EOF
    THEN UrlEnd(f, pos, i + 1)
    ELSE i

RECURSIVE SkipSpace(_, _)
\* fscanf("%u") skips white space first.
SkipSpace(f, pos) ==
    IF Getc(f, pos) \in {" ", "\n"} THEN SkipSpace(f, pos + 1) ELSE pos

DigitValue(c) == (CHOOSE d \in 1..10 : Digits[d] = c) - 1
IsDigit(c) == \E d \in 1..10 : Digits[d] = c

RECURSIVE ScanDigits(_, _, _)
\* The digits from pos on: the number they spell after acc, and where they end.
ScanDigits(f, pos, acc) ==
    IF IsDigit(Getc(f, pos))
    THEN ScanDigits(f, pos + 1, acc * 10 + DigitValue(Getc(f, pos)))
    ELSE [value |-> acc, pos |-> pos]

RECURSIVE ReadRecords(_, _)
\* The loop of tunnel_file_read from position pos: the (url, age) pairs it
\* creates records for, in order.  It goes on after a blank line, a comment
\* and a record, and stops at the end of the file and at a malformed record.
ReadRecords(f, pos) ==
    LET c    == Getc(f, pos)
        i    == UrlEnd(f, pos, 0)
        from == SkipSpace(f, pos + i + 1)
        age  == ScanDigits(f, from, 0)
    IN  IF c = EOF THEN <<>>
        ELSE IF c = "\n" THEN ReadRecords(f, pos + 1)
        ELSE IF c = "#" THEN ReadRecords(f, SkipComment(f, pos + 1))
        ELSE IF i = 0 \/ Getc(f, pos + i) # " " THEN <<>>
        ELSE IF age.pos = from \/ age.value > UINT8_MAX THEN <<>>
        ELSE IF Getc(f, age.pos) # "\n" THEN <<>>
        ELSE <<[url |-> SubSeq(f, pos, pos + i - 1), age |-> age.value]>>
             \o ReadRecords(f, age.pos + 1)

\* The file tunnel_file_read reads: the cache file, the backup when there is
\* no cache file, nothing (an empty string) when there is neither.
FileToRead == IF disk.pri # ABSENT THEN disk.pri
              ELSE IF disk.bak # ABSENT THEN disk.bak ELSE <<>>

\* tunnel_file_read, the second step of the startup sequence: every record of
\* the file is created and inserted into the cache, whatever the cache holds.
tunnel_file_read ==
    /\ mgr_pc = "init"
    /\ LockFree
    /\ LET rs == ReadRecords(FileToRead, 1)
       IN  /\ Len(heap) + Len(rs) <= MaxRec
           /\ heap' = heap \o [k \in 1..Len(rs) |->
                          tunnel_create(rs[k].url, rs[k].age, next_id + k - 1)]
           /\ next_id' = (next_id + Len(rs)) % 65536
           /\ tunnels_cache' = tunnels_cache \o [k \in 1..Len(rs) |-> Len(heap) + k]
    /\ mgr_pc' = "read"
    /\ UNCHANGED <<io, tunnels_active, tunnels_lock, tasks, panicked>>

\* tunnel_open, the last step of the startup sequence: the two managers start.
tunnel_open ==
    /\ mgr_pc = "read"
    /\ ~panicked
    /\ mgr_pc' = "scan"
    /\ UNCHANGED <<io, heap, next_id, tunnels_cache, tunnels_active,
                   tunnels_lock, tasks, panicked>>

\* ------------------------------------------------------------ the packet path

\* After activation: up to MaxRec tunnels, each OPEN in both sets with its
\* handle, the weight 1.0 and the age TUNNEL_INIT_AGE; no thread is running an
\* activation, no packet was tunneled yet and there is no cache file.
InitPackets ==
    /\ \E n \in 0..MaxRec :
          heap = [k \in 1..n |->
                    [tunnel_create(<<ColdUrls[k]>>, TUNNEL_INIT_AGE, k - 1)
                        EXCEPT !.state = TUNNEL_STATE_OPEN, !.tunnel = HANDLE]]
    /\ next_id = Len(heap)
    /\ tunnels_cache = [k \in 1..Len(heap) |-> k]
    /\ tunnels_active = [k \in 1..Len(heap) |-> k]
    /\ tunnels_lock = "free"
    /\ tasks = {}
    /\ mgr_pc = "done"
    /\ panicked = FALSE
    /\ disk = NoDisk
    /\ tunnel_history = NoHistory
    /\ ret = NoRet
    /\ npackets = 0
    /\ writer = NoWriter

NextPackets ==
    \/ \E hash \in Hashes : \E repeat \in Repeats : \E tot_len \in PacketLens :
       \E mtu \in Mtus : \E stray \in Strays :
          tunnel_packets(hash, repeat, tot_len, mtu, stray)
    \/ \E fopen_ok \in BOOLEAN : tunnel_file_write(fopen_ok)

SpecPackets == InitPackets /\ [][NextPackets]_vars

\* C9: no operation returns while it holds the global lock: tunnel_packets
\* and tunnel_file_write release it on every path.
C9_LockReleased == tunnels_lock = "free"

\* C10: tunnel_get on a non-empty active set returns a member of the active
\* set: its walk stops at an index below the length of the set.
C10_SelectsMember ==
    (ret.op = "packets" /\ ret.length > 0) =>
        /\ ret.walk < ret.length
        /\ InActive(ret.tunnel)

\* The record tunnel_get finds through the history slot of this packet.
BadOf(hash, repeat) ==
    BadTunnel(heap, tunnels_active, tunnel_history[hist_idx(hash)],
              hist_hash(hash), repeat)

\* A tunnel_packets step for a repeated packet whose history slot holds its
\* hist_hash and the id of a record that is still active, with two or more
\* active tunnels.
RepeatHit ==
    /\ npackets' = npackets + 1
    /\ ret'.repeat # 0
    /\ Len(tunnels_active) >= 2
    /\ BadOf(ret'.hash, ret'.repeat) # NULL

\* What C20 says of such a step: the recorded tunnel has 0.75 of its weight
\* (not below 0.005), another tunnel is returned, and the slot holds the
\* returned tunnel.
RepeatAvoids ==
    LET bad == BadOf(ret'.hash, ret'.repeat)
    IN  /\ heap'[bad].weight = Punished(heap[bad].weight)
        /\ ret'.tunnel \in DOMAIN heap
        /\ ret'.tunnel # bad
        /\ tunnel_history'[hist_idx(ret'.hash)] =
              [hash |-> hist_hash(ret'.hash), id |-> heap[ret'.tunnel].id]

\* C20: when tunnel_get is called with repeat # 0, the history slot of the
\* hash holds the same hist_hash, and the tunnel recorded there is still
\* active among two or more tunnels, then that tunnel's weight is multiplied
\* by 0.75 (not below 0.005), the tunnel returned is a different one, and the
\* returned tunnel is recorded in the slot.
C20_RepeatAvoidsBad == [][ RepeatHit => RepeatAvoids ]_vars

\* C20, for the calls whose walk stops inside the array: it holds of them.
C20_InsideArray ==
    [][ (RepeatHit /\ ret'.walk < Len(tunnels_active)) => RepeatAvoids ]_vars

\* ------------------------------------------------------------ weights

\* The punishments in a row a tunnel had before the first packet here: the
\* next one takes a weight of 1.0 to the lower limit.
MaxPunish == 18

RECURSIVE PunishedTimes(_, _)
\* The weight w after k punishments.
PunishedTimes(w, k) == IF k = 0 THEN w ELSE Punished(PunishedTimes(w, k - 1))

\* The weights up to MaxPunish punishments in a row leave a record with.
PunishedWeights == {PunishedTimes(WEIGHT_ONE, k) : k \in 0..MaxPunish}

\* The tunnels of a packet path that has been in use: one or two tunnels, each
\* OPEN in both sets.  The first was punished some times in a row; the second
\* took its packets and has the weight 1.0.
InitWeights ==
    /\ \E n \in 1..2 : \E w \in PunishedWeights :
          heap = [k \in 1..n |->
                    [tunnel_create(<<ColdUrls[k]>>, TUNNEL_INIT_AGE, k - 1)
                        EXCEPT !.state = TUNNEL_STATE_OPEN, !.tunnel = HANDLE,
                               !.weight = IF k = 1 THEN w ELSE WEIGHT_ONE]]
    /\ next_id = Len(heap)
    /\ tunnels_cache = [k \in 1..Len(heap) |-> k]
    /\ tunnels_active = [k \in 1..Len(heap) |-> k]
    /\ tunnels_lock = "free"
    /\ tasks = {}
    /\ mgr_pc = "done"
    /\ panicked = FALSE
    /\ disk = NoDisk
    /\ tunnel_history = NoHistory
    /\ ret = NoRet
    /\ npackets = 0
    /\ writer = NoWriter

\* Packets that fit the MTU of their tunnel.
NextWeights ==
    \E hash \in Hashes : \E repeat \in Repeats : \E tot_len \in PacketLens :
    \E stray \in Strays :
        tunnel_packets(hash, repeat, tot_len, tot_len, stray)

SpecWeights == InitWeights /\ [][NextWeights]_vars

\* C11: the weight of every record is within [0.005, 1.0] after every
\* sequence of tunnel_get calls (rewards and punishments) and creations.
C11_WeightRange ==
    \A p \in DOMAIN heap :
        heap[p].mem = "live" =>
            /\ heap[p].weight >= WEIGHT_ONE \div 200
            /\ heap[p].weight <= WEIGHT_ONE

\* C11 (witness): a repeated packet punished a tunnel down to the lower limit
\* and rewarded another up to the upper limit.
C11_Witness ==
    /\ ret.op = "packets"
    /\ ret.bad \notin {NULL, WILD}
    /\ ret.tunnel \notin {NULL, WILD, ret.bad}
    /\ heap[ret.bad].weight = WEIGHT_ONE \div 200
    /\ heap[ret.tunnel].weight = WEIGHT_ONE

\* ------------------------------------------------------------ startup

\* The lines of the cache-file grammar: a blank line, a comment, a record of
\* age ColdAge.
FileLines ==
    {<<"\n">>, <<"#", "a", "\n">>} \cup
    {u \o <<" ">> \o Dec(ColdAge) \o <<"\n">> : u \in Urls}

RECURSIVE Concat(_)
\* The lines of ls, one after the other.
Concat(ls) == IF ls = <<>> THEN <<>> ELSE Head(ls) \o Concat(Tail(ls))

\* The files of at most MaxLines lines.
StartFiles ==
    {Concat(ls) : ls \in UNION {[1..n -> FileLines] : n \in 0..MaxLines}}

\* After tunnel_init: both sets are empty, no thread runs, and the cache file
\* is any file of the grammar, or there is none.
InitStartup ==
    /\ heap = <<>>
    /\ next_id = 0
    /\ tunnels_cache = <<>>
    /\ tunnels_active = <<>>
    /\ tunnels_lock = "free"
    /\ tasks = {}
    /\ mgr_pc = "init"
    /\ panicked = FALSE
    /\ disk \in {[NoDisk EXCEPT !.pri = f] : f \in StartFiles \cup {ABSENT}}
    /\ tunnel_history = NoHistory
    /\ ret = NoRet
    /\ npackets = 0
    /\ writer = NoWriter

\* The startup sequence, then add, delete and activation: the administrator
\* acts when the startup sequence is over.
NextStartup ==
    \/ tunnel_file_read
    \/ tunnel_open
    \/ Started /\ \E u \in Urls : tunnel_add(u)
    \/ Started /\ \E u \in Urls : tunnel_delete(u)
    \/ ManagerScan
    \/ ManagerWake
    \/ \E t \in tasks : \E o \in BOOLEAN : \E h \in {NULL, HANDLE} :
          TryActivate(t, o, h)
    \/ \E t \in tasks : tunnel_activate(t)

SpecStartup == InitStartup /\ [][NextStartup]_vars

\* C4: no two records in the cache set share a URL and no two records in the
\* active set share a URL, at every release of the lock.
C4_UrlsUnique ==
    /\ \A i, j \in 1..Len(tunnels_cache) :
          heap[tunnels_cache[i]].url = heap[tunnels_cache[j]].url => i = j
    /\ \A i, j \in 1..Len(tunnels_active) :
          heap[tunnels_active[i]].url = heap[tunnels_active[j]].url => i = j

\* ------------------------------------------------------------ a killed write

\* What tunnel_file_read would load from the cache files as they are.
Loaded == ReadRecords(FileToRead, 1)

\* What tunnel_file_write is to print for the cache as it is.
Image == FileHeader \o FileRecords(heap, tunnels_cache, Len(tunnels_cache))

\* tunnel_file_write, one system call at a time.  It takes the lock.
FileWriteLock ==
    /\ LockFree
    /\ writer.pc = "idle"
    /\ tunnels_lock' = "tunnel_file_write"
    /\ writer' = [writer EXCEPT !.pc = IF writer.windows THEN "remove_bak"
                                                          ELSE "rename_bak",
                                !.pre = Loaded,
                                !.post = ReadRecords(Image, 1),
                                !.cache = CachePairs]
    /\ UNCHANGED <<heap, next_id, tunnels_cache, tunnels_active, tasks, mgr_pc,
                   panicked, disk, tunnel_history, ret, npackets>>

\* What the steps of the write leave alone.
WriterKeeps ==
    UNCHANGED <<heap, next_id, tunnels_cache, tunnels_active, tasks, mgr_pc,
                panicked, tunnel_history, ret, npackets>>

\* #ifdef WINDOWS: remove(TUNNELS_BAK_FILENAME).
FileWriteRemoveBak ==
    /\ writer.pc = "remove_bak"
    /\ disk' = [disk EXCEPT !.bak = ABSENT]
    /\ writer' = [writer EXCEPT !.pc = "rename_bak"]
    /\ UNCHANGED tunnels_lock
    /\ WriterKeeps

\* rename(TUNNELS_FILENAME, TUNNELS_BAK_FILENAME): it fails, and changes
\* nothing, when there is no cache file.
FileWriteBackup ==
    /\ writer.pc = "rename_bak"
    /\ disk' = IF disk.pri = ABSENT THEN disk
               ELSE [disk EXCEPT !.bak = disk.pri, !.pri = ABSENT]
    /\ writer' = [writer EXCEPT !.pc = "fopen"]
    /\ UNCHANGED tunnels_lock
    /\ WriterKeeps

\* fopen(TUNNELS_TMP_FILENAME, "w"): an empty temporary file, or the return
\* without thread_unlock.
FileWriteOpen(fopen_ok) ==
    /\ writer.pc = "fopen"
    /\ IF fopen_ok
       THEN /\ disk' = [disk EXCEPT !.tmp = <<>>]
            /\ writer' = [writer EXCEPT !.pc = "print"]
       ELSE /\ writer' = [writer EXCEPT !.pc = "idle"]
            /\ UNCHANGED disk
    /\ UNCHANGED tunnels_lock
    /\ WriterKeeps

\* The two header lines, then the records and fclose.
FileWritePrint ==
    /\ writer.pc \in {"print", "records"}
    /\ IF writer.pc = "print"
       THEN /\ disk' = [disk EXCEPT !.tmp = FileHeader]
            /\ writer' = [writer EXCEPT !.pc = "records"]
       ELSE /\ disk' = [disk EXCEPT !.tmp = Image]
            /\ writer' = [writer EXCEPT !.pc = IF writer.windows
                                                THEN "remove_pri" ELSE "rename_tmp"]
    /\ UNCHANGED tunnels_lock
    /\ WriterKeeps

\* #ifdef WINDOWS: remove(TUNNELS_FILENAME).
FileWriteRemovePri ==
    /\ writer.pc = "remove_pri"
    /\ disk' = [disk EXCEPT !.pri = ABSENT]
    /\ writer' = [writer EXCEPT !.pc = "rename_tmp"]
    /\ UNCHANGED tunnels_lock
    /\ WriterKeeps

\* rename(TUNNELS_TMP_FILENAME, TUNNELS_FILENAME) and thread_unlock.
FileWriteRename ==
    /\ writer.pc = "rename_tmp"
    /\ disk' = [disk EXCEPT !.pri = disk.tmp, !.tmp = ABSENT]
    /\ writer' = [writer EXCEPT !.pc = "idle"]
    /\ tunnels_lock' = "free"
    /\ WriterKeeps

\* The process is killed inside tunnel_file_write and started again:
\* tunnel_init, tunnel_file_read and tunnel_open of the new process.  Its
\* memory is new; the files are what the killed process left.
KillAndRestart ==
    /\ writer.pc # "idle"
    /\ heap' = [k \in 1..Len(Loaded) |->
                   tunnel_create(Loaded[k].url, Loaded[k].age, k - 1)]
    /\ next_id' = Len(Loaded)
    /\ tunnels_cache' = [k \in 1..Len(Loaded) |-> k]
    /\ tunnels_active' = <<>>
    /\ tunnels_lock' = "free"
    /\ tasks' = {}
    /\ mgr_pc' = "scan"
    /\ panicked' = FALSE
    /\ writer' = [writer EXCEPT !.pc = "idle"]
    /\ UNCHANGED <<disk, tunnel_history, ret, npackets>>

\* A first start without cache files, in either build.
InitCrash ==
    /\ heap = <<>>
    /\ next_id = 0
    /\ tunnels_cache = <<>>
    /\ tunnels_active = <<>>
    /\ tunnels_lock = "free"
    /\ tasks = {}
    /\ mgr_pc = "scan"
    /\ panicked = FALSE
    /\ disk = NoDisk
    /\ tunnel_history = NoHistory
    /\ ret = NoRet
    /\ npackets = 0
    /\ writer \in {[NoWriter EXCEPT !.windows = w] : w \in BOOLEAN}

\* add and delete change the cache (the threads they start have not run yet);
\* tunnel_file_write runs when the lock is free, and the process may be killed
\* inside it.
NextCrash ==
    \/ \E u \in Urls : tunnel_add(u)
    \/ \E u \in Urls : tunnel_delete(u)
    \/ FileWriteLock
    \/ FileWriteRemoveBak
    \/ FileWriteBackup
    \/ \E fopen_ok \in BOOLEAN : FileWriteOpen(fopen_ok)
    \/ FileWritePrint
    \/ FileWriteRemovePri
    \/ FileWriteRename
    \/ KillAndRestart

SpecCrash == InitCrash /\ [][NextCrash]_vars

\* C12: at every point inside tunnel_file_write, what the next
\* tunnel_file_read would load is what it would have loaded before the write
\* or what the write is to leave, in both builds and from the files any
\* earlier, possibly killed, write left.
C12_KilledWriteKeepsImage ==
    writer.pc # "idle" => Loaded \in {writer.pre, writer.post}

\* The same for the build without WINDOWS only.
C12_PlainRenameKeepsImage ==
    (writer.pc # "idle" /\ ~writer.windows) => Loaded \in {writer.pre, writer.post}

\* ------------------------------------------------------------ write, then read

\* URLs without a space, as tunnel_file_read takes them: up to MaxUrlLen
\* characters, the first none of '#' and newline.
RoundUrls == {<<"a">>, <<"b", "1">>, <<"a", "#", "2">>, <<"a", "\n", "b">>}
\* Ages of a uint8_t: the least, the one tunnel_file_write leaves out, the
\* initial one and the greatest.
RoundAges == {0, 1, TUNNEL_INIT_AGE, UINT8_MAX}

\* A running process in either build: its cache holds up to MaxRec records,
\* there are no cache files yet.
InitRound ==
    /\ \E n \in 0..MaxRec : \E us \in [1..n -> RoundUrls] :
       \E ages \in [1..n -> RoundAges] :
          heap = [k \in 1..n |-> tunnel_create(us[k], ages[k], k - 1)]
    /\ next_id = Len(heap)
    /\ tunnels_cache = [k \in 1..Len(heap) |-> k]
    /\ tunnels_active = <<>>
    /\ tunnels_lock = "free"
    /\ tasks = {}
    /\ mgr_pc = "scan"
    /\ panicked = FALSE
    /\ disk = NoDisk
    /\ tunnel_history = NoHistory
    /\ ret = NoRet
    /\ npackets = 0
    /\ writer \in {[NoWriter EXCEPT !.windows = w] : w \in BOOLEAN}

\* The process ends outside tunnel_file_write and is started again: after
\* tunnel_init both sets are empty.
ProcessRestart ==
    /\ writer.pc = "idle"
    /\ Started
    /\ heap' = <<>>
    /\ next_id' = 0
    /\ tunnels_cache' = <<>>
    /\ tunnels_active' = <<>>
    /\ tunnels_lock' = "free"
    /\ tasks' = {}
    /\ mgr_pc' = "init"
    /\ panicked' = FALSE
    /\ UNCHANGED <<disk, tunnel_history, ret, npackets, writer>>

NextRound ==
    \/ FileWriteLock
    \/ FileWriteRemoveBak
    \/ FileWriteBackup
    \/ \E fopen_ok \in BOOLEAN : FileWriteOpen(fopen_ok)
    \/ FileWritePrint
    \/ FileWriteRemovePri
    \/ FileWriteRename
    \/ ProcessRestart
    \/ tunnel_file_read
    \/ tunnel_open

SpecRound == InitRound /\ [][NextRound]_vars

FileWriteAfter ==
    /\ disk' = [pri |-> Image',
                bak |-> IF disk.pri = ABSENT THEN disk.bak ELSE disk.pri,
                tmp |-> ABSENT]
    /\ UNCHANGED <<tunnel_history, ret, npackets, writer>>

\* tunnel_add, tunnel_delete and tunnel_activate, each with the
\* tunnel_file_write call it ends with.  tunnel_reconnect makes no such call.
AddAndWrite(url)    == tunnel_add_locked(url) /\ FileWriteAfter
DeleteAndWrite(url) == tunnel_delete_locked(url) /\ FileWriteAfter
ActivateAndWrite(t) == tunnel_activate_locked(t) /\ FileWriteAfter

\* As Init, with the cache file the cache was read from.  The activation
\* manager has gone through the cache already (it opens tunnels and writes
\* nothing), so every activation here comes from tunnel_add.
InitPersist ==
    /\ \E us \in InitUrlSeqs : \E ages \in [1..Len(us) -> InitAges] :
          heap = [k \in 1..Len(us) |-> tunnel_create(us[k], ages[k], k - 1)]
    /\ next_id = Len(heap)
    /\ tunnels_cache = [k \in 1..Len(heap) |-> k]
    /\ tunnels_active = <<>>
    /\ tunnels_lock = "free"
    /\ tasks = {}
    /\ mgr_pc = "done"
    /\ panicked = FALSE
    /\ disk = [NoDisk EXCEPT !.pri = Image]
    /\ tunnel_history = NoHistory
    /\ ret = NoRet
    /\ npackets = 0
    /\ writer = NoWriter

NextPersist ==
    \/ \E u \in Urls : AddAndWrite(u)
    \/ \E u \in Urls : DeleteAndWrite(u)
    \/ \E t \in tasks : \E o \in BOOLEAN : \E h \in {NULL, HANDLE} :
          TryActivate(t, o, h)
    \/ \E t \in tasks : ActivateAndWrite(t)
    \/ \E S \in SUBSET SeqRange(tunnels_active) : tunnel_reconnect_manager(S)
    \/ \E t \in tasks : ReconnectCreate(t)
    \/ \E t \in tasks : \E h \in {NULL, HANDLE} : ReconnectTry(t, h)
    \/ \E t \in tasks : ReconnectReplace(t)
    \/ \E t \in tasks : \E u \in Urls \cup {GARBAGE} : ReconnectGiveUp(t, u)

SpecPersist == InitPersist /\ [][NextPersist]_vars

\* C19: every operation that changes which URLs are in the cache set, or the
\* age of a cache record, is followed by tunnel_file_write in the same task:
\* it leaves a cache file that is the image of the cache.
C19_ChangeIsWritten ==
    [][ CachePairs' # CachePairs => disk'.pri = Image' ]_vars

\* ------------------------------------------------------------ reconnect after startup

\* The startup sequence on any cache file of the grammar, then the managers
\* and the threads they start: activation and reconnection.  The
\* administrator adds and deletes nothing.
NextReload ==
    \/ tunnel_file_read
    \/ tunnel_open
    \/ ManagerScan
    \/ ManagerWake
    \/ \E t \in tasks : \E o \in BOOLEAN : \E h \in {NULL, HANDLE} :
          TryActivate(t, o, h)
    \/ \E t \in tasks : tunnel_activate(t)
    \/ \E S \in SUBSET SeqRange(tunnels_active) : tunnel_reconnect_manager(S)
    \/ \E t \in tasks : ReconnectCreate(t)
    \/ \E t \in tasks : \E h \in {NULL, HANDLE} : ReconnectTry(t, h)
    \/ \E t \in tasks : ReconnectReplace(t)
    \/ \E t \in tasks : \E u \in Urls \cup {GARBAGE} : ReconnectGiveUp(t, u)

SpecReload == InitStartup /\ [][NextReload]_vars

\* C21: no destroyed record is reachable: a record that was destroyed is
\* referenced from neither the cache set nor the active set, and no activate
\* task that is still running holds it.
C21_DestroyedUnreachable ==
    \A p \in DOMAIN heap :
        heap[p].mem = "freed" =>
            /\ ~InCache(p)
            /\ ~InActive(p)
            /\ \A t \in ActivateTasks : t.tunnel # p

\* ------------------------------------------------------------ driver handles

\* Every tunnel of the cache has been activated: each record is OPEN in both
\* sets with its handle and the age TUNNEL_INIT_AGE, no thread is running an
\* activation, and the activate manager, with fewer than MAX_INIT_OPEN active
\* tunnels, is asleep between two scans.
InitOpened ==
    /\ \E us \in InitUrlSeqs :
          heap = [k \in 1..Len(us) |->
                    [tunnel_create(us[k], TUNNEL_INIT_AGE, k - 1)
                        EXCEPT !.state = TUNNEL_STATE_OPEN, !.tunnel = HANDLE]]
    /\ next_id = Len(heap)
    /\ tunnels_cache = [k \in 1..Len(heap) |-> k]
    /\ tunnels_active = [k \in 1..Len(heap) |-> k]
    /\ tunnels_lock = "free"
    /\ tasks = {}
    /\ mgr_pc = "sleep"
    /\ panicked = FALSE
    /\ disk = NoDisk
    /\ tunnel_history = NoHistory
    /\ ret = NoRet
    /\ npackets = 0
    /\ writer = NoWriter

\* Every record in the active set holds a driver handle.
ActiveHandles ==
    \A i \in 1..Len(tunnels_active) : heap[tunnels_active[i]].tunnel # NULL

\* What the active array holds one past its end, with two tunnels at most and
\* none inserted since the start: the shift of tunnel_set_delete leaves the
\* array's last element there (the deleted record itself when it was the
\* last); before any delete the slot was never written.
PastEnd ==
    IF Len(tunnels_active) < Len(heap) THEN {Len(heap)} ELSE Strays

\* tunnel_packets for a packet that fits the MTU of its tunnel; the slot past
\* the end of the array is read only by a walk that ends there.
Forward ==
    \E hash \in Hashes : \E repeat \in Repeats : \E tot_len \in PacketLens :
    \E stray \in PastEnd \cup {NULL} :
        /\ tunnel_packets(hash, repeat, tot_len, tot_len, stray)
        /\ ret'.walk = Len(tunnels_active) => stray \in PastEnd

\* The tunnels are open and packets are tunneled; the administrator deletes
\* tunnels.
NextForward ==
    \/ \E u \in Urls : tunnel_delete(u)
    \/ Forward

SpecForward == InitOpened /\ [][NextForward]_vars

\* This step is a tunnel_packets call that goes on to the driver with the
\* tunnel tunnel_get returned.
DriverCall ==
    /\ npackets' = npackets + 1
    /\ ret'.tunnel \in DOMAIN heap

\* C22: every record in the active set holds a driver handle at every
\* release of the lock, so tunnel_packets never passes a NULL handle to
\* cktp_tunnel_get_mtu or cktp_tunnel_packet, also when tunnel_try_activate
\* returned true because the state left OPENING before a handle was obtained.
C22_ActiveHasHandle ==
    [][ /\ ActiveHandles'
        /\ DriverCall => heap[ret'.tunnel].tunnel # NULL
      ]_vars

\* C22, the first half: the lifecycle keeps a handle in every active record.
C22_LifecycleKeepsHandles == ActiveHandles

\* ------------------------------------------------------------ one thread a record

\* C23: at most one activate task is running for a record at any time, for
\* every interleaving of add, delete, the activate manager and reconnect
\* tasks.  (The threads are a set: two threads for one record are two
\* elements once one of them has gone a step further than the other, and
\* a thread that was started can take its first step before any other
\* thread is started.)
C23_OneActivatePerRecord ==
    \A t1, t2 \in ActivateTasks : t1.tunnel = t2.tunnel => t1 = t2

\* C23 (witness): two activate tasks run for one URL, each for a record of
\* its own: the URL was deleted while its first record was OPENING, and
\* added again.
C23_Witness ==
    \E t1, t2 \in ActivateTasks :
        /\ t1.tunnel # t2.tunnel
        /\ heap[t1.tunnel].url = heap[t2.tunnel].url
        /\ heap[t1.tunnel].state = TUNNEL_STATE_DELETING
        /\ heap[t2.tunnel].state = TUNNEL_STATE_OPENING

\* ------------------------------------------------------------ deactivation

\* The administrator deletes and never adds; no tunnel times out.
NextDeactivate ==
    \/ \E u \in Urls : tunnel_delete(u)
    \/ ManagerScan
    \/ ManagerWake
    \/ \E t \in tasks : \E o \in BOOLEAN : \E h \in {NULL, HANDLE} :
          TryActivate(t, o, h)
    \/ \E t \in tasks : tunnel_activate(t)

SpecDeactivate == InitOpened /\ [][NextDeactivate]_vars

\* The URLs of the active set.
ActiveUrls == {heap[tunnels_active[i]].url : i \in 1..Len(tunnels_active)}

\* C24: after tunnel_delete deactivates an OPEN tunnel (out of the active
\* set, CLOSED in the cache), its URL does not re-enter the active set until
\* tunnel_add is called for it.  Here tunnel_add is never called, and a URL
\* leaves the active set through such a tunnel_delete only: a URL that is
\* not active does not become active.
C24_StaysInactive ==
    [][ \A u \in Urls : u \notin ActiveUrls => u \notin ActiveUrls' ]_vars

====
